---- MODULE Spec2Model ----
(***************************************************************************)
(* King of the Hill: the networked TeamManager (src/TeamManager.ts) and    *)
(* the networked ControlPoint (second class of src/ControlPoint.ts).       *)
(*                                                                         *)
(* One authority process owns the TeamManager entity and the control point *)
(* entities; every process (the authority included) subscribes to the two  *)
(* network events with Execution.Everywhere and applies them to its own    *)
(* copy of the state.  sendEventToEveryone is modelled as appending the    *)
(* payload to one FIFO queue per process and per network event.            *)
(***************************************************************************)
EXTENDS Integers, Sequences, FiniteSets, TLC

\* ----------------------------------------------------------------- bounds
NumPlayers == 4
MaxEvents == 4

\* ------------------------------------------------------------ the universe
Players == 1..NumPlayers
Authority == "authority"
Replica == "replica"
Procs == {Authority, Replica}
\* the control point entities of the scene
X == 1
Y == 2
ControlPoints == {X, Y}

\* enum Team; None is the absence of a Map entry (Map.get gives undefined)
Red == "red"
Blue == "blue"
None == "none"

\* enum ControlPointState
Neutral == "neutral"
RedControlled == "red"
BlueControlled == "blue"
Contested == "contested"
ControlPointState == {Neutral, RedControlled, BlueControlled, Contested}

\* entity.debugId: a string that names the entity; distinct entities have
\* distinct ids, and an id is not the entity itself
DebugId(p) == 100 + p


VARIABLES
  world,                \* player entity lifecycle: "out", "in" (created), "gone"
  playerTeams,          \* TeamManager.playerTeams, per process
  redTeamCount,         \* TeamManager.redTeamCount, per process
  blueTeamCount,        \* TeamManager.blueTeamCount, per process
  teamQueue,            \* TeamAssignmentNetworkEvent payloads in flight, per process
  redPlayersInTrigger,  \* ControlPoint.redPlayersInTrigger, per process and control point
  bluePlayersInTrigger, \* ControlPoint.bluePlayersInTrigger, per process and control point
  currentState,         \* ControlPoint.currentState, per process and control point
  color,                \* the parent entity's ColorComponent.color, per process and control point
  uiScores,             \* the line the last updateUIScores call logged, per process and control point
  cpQueue,              \* ControlPointStateChangedNetworkEvent payloads in flight, per process
  localPlayerTeams,     \* first ControlPoint class: static playerTeams registry
  localRed,             \* first ControlPoint class: redPlayersInTrigger
  localBlue,            \* first ControlPoint class: bluePlayersInTrigger
  localState,           \* first ControlPoint class: currentState
  localColor,           \* first ControlPoint class: the parent's ColorComponent.color
  deltaSent,            \* PlayerTeamAssigned/Removed network events, in the order sent
  deltaHandled,         \* positions in deltaSent of the events handled, in handling order
  instance,             \* TeamManager.instance is set, per process
  returnedTeam,         \* what the last TeamManager.getPlayerTeam call returned
  returnedPlayers,      \* what the last TeamManager.getPlayersOnTeam call returned
  returnedCounts,       \* what the last TeamManager.getTeamCounts call returned
  returnedMap,          \* the Map object the last getAllTeamAssignments call returned
  returnedOk,           \* what the last assignPlayerToSpecificTeam call returned
  assigned,             \* history: the team the authority's balancing gave each present player
  events,               \* number of platform events and manual assignments so far
  synced                \* history: every event so far found all earlier broadcasts handled

tmVars == <<playerTeams, redTeamCount, blueTeamCount, teamQueue>>
cpVars == <<redPlayersInTrigger, bluePlayersInTrigger, currentState, color, uiScores,
           cpQueue>>
localVars == <<localPlayerTeams, localRed, localBlue, localState, localColor>>
deltaVars == <<deltaSent, deltaHandled>>
callVars == <<returnedTeam, returnedPlayers, returnedCounts, returnedMap, returnedOk>>

vars == <<world, tmVars, cpVars, localVars, deltaVars, instance, callVars, assigned, events, synced>>

EmptyMap == [p \in Players |-> None]

\* updateControlPointColor, lines 672-691 (and 309-328): the color of a state
Gray == "gray"
Yellow == "yellow"
ColorOf(state) ==
  IF state = RedControlled THEN "red"
  ELSE IF state = BlueControlled THEN "blue"
  ELSE IF state = Contested THEN Yellow
  ELSE Gray

\* updateUIScores, lines 634-654: the line logged for a state
UILine(state) ==
  IF state = RedControlled THEN "Red: 1, Blue: 0"
  ELSE IF state = BlueControlled THEN "Red: 0, Blue: 1"
  ELSE IF state = Contested THEN "Red: 0, Blue: 0 (contested)"
  ELSE "unchanged"

\* a Map object handed to a caller: whether it is the static playerTeams map
\* of process owner itself, and what it holds
NoMap == [isStatic |-> FALSE, owner |-> Authority, entries |-> EmptyMap]

\* the fields after construction
Constructed ==
  /\ world = [p \in Players |-> "out"]
  /\ playerTeams = [q \in Procs |-> EmptyMap]
  /\ redTeamCount = [q \in Procs |-> 0]
  /\ blueTeamCount = [q \in Procs |-> 0]
  /\ teamQueue = [q \in Procs |-> << >>]
  /\ redPlayersInTrigger = [q \in Procs |-> [c \in ControlPoints |-> {}]]
  /\ bluePlayersInTrigger = [q \in Procs |-> [c \in ControlPoints |-> {}]]
  /\ currentState = [q \in Procs |-> [c \in ControlPoints |-> Neutral]]
  /\ cpQueue = [q \in Procs |-> << >>]
  /\ localPlayerTeams = EmptyMap
  /\ localRed = {}
  /\ localBlue = {}
  /\ localState = Neutral
  /\ deltaSent = << >>
  /\ deltaHandled = << >>
  /\ returnedTeam = None
  /\ returnedPlayers = {}
  /\ returnedCounts = [red |-> 0, blue |-> 0]
  /\ returnedMap = NoMap
  /\ returnedOk = FALSE
  /\ assigned = EmptyMap
  /\ events = 0
  /\ synced = TRUE

\* the fields after construction and onStart (which colors the neutral point
\* and sets TeamManager.instance)
Init ==
  /\ Constructed
  /\ color = [q \in Procs |-> [c \in ControlPoints |-> ColorOf(Neutral)]]
  /\ uiScores = [q \in Procs |-> [c \in ControlPoints |-> UILine(Neutral)]]
  /\ localColor = ColorOf(Neutral)
  /\ instance = [q \in Procs |-> TRUE]

\* the fields when the control points have started and no TeamManager has
ColdInit ==
  /\ Constructed
  /\ color = [q \in Procs |-> [c \in ControlPoints |-> ColorOf(Neutral)]]
  /\ uiScores = [q \in Procs |-> [c \in ControlPoints |-> UILine(Neutral)]]
  /\ localColor = ColorOf(Neutral)
  /\ instance = [q \in Procs |-> FALSE]

\* the fields of TeamManager (static) and of ControlPoint, per process
TypeOK ==
  /\ world \in [Players -> {"out", "in", "gone"}]
  /\ playerTeams \in [Procs -> [Players -> {Red, Blue, None}]]
  /\ redTeamCount \in [Procs -> Nat]
  /\ blueTeamCount \in [Procs -> Nat]
  /\ redPlayersInTrigger \in [Procs -> [ControlPoints -> SUBSET Players]]
  /\ bluePlayersInTrigger \in [Procs -> [ControlPoints -> SUBSET Players]]
  /\ currentState \in [Procs -> [ControlPoints -> ControlPointState]]
  /\ color \in [Procs -> [ControlPoints -> {Gray, "red", "blue", Yellow}]]
  /\ uiScores \in [Procs -> [ControlPoints -> {UILine(st) : st \in ControlPointState}]]
  /\ instance \in [Procs -> BOOLEAN]
  /\ \A q \in Procs : \A i \in 1..Len(cpQueue[q]) :
       /\ cpQueue[q][i].controlPointEntity \in ControlPoints
       /\ cpQueue[q][i].newState \in ControlPointState
  /\ \A q \in Procs : \A i \in 1..Len(teamQueue[q]) :
       /\ teamQueue[q][i].redTeamCount \in Nat
       /\ teamQueue[q][i].blueTeamCount \in Nat
  /\ localPlayerTeams \in [Players -> {Red, Blue, None}]
  /\ localRed \in SUBSET Players /\ localBlue \in SUBSET Players
  /\ localState \in ControlPointState
  /\ \A i \in 1..Len(deltaSent) :
       /\ deltaSent[i].kind \in {"assigned", "removed"}
       /\ deltaSent[i].playerEntity \in Players
       /\ deltaSent[i].team \in {Red, Blue}
  /\ \A i \in 1..Len(deltaHandled) : deltaHandled[i] \in 1..Len(deltaSent)

\* an event payload whose entity reference is null or undefined
NoEntity == 0

\* an entity that is not a player's: a prop moving through a trigger
Prop == NumPlayers + 1

\* what a trigger event can name as its actor
Actors == Players \cup {NoEntity, Prop}

\* bug variant: every actor is taken for a player
hasPlayerComponentAlways(a) == TRUE

\* actorEntity.getComponent(PlayerComponent) is not null
hasPlayerComponent(a) == a \in Players

\* bug variant: the ownership test always passes
isOwnedAlways(q) == TRUE

\* this.entity.isOwned()
isOwned(q) == q = Authority

Max(a, b) == IF a >= b THEN a ELSE b

\* Entity.sendEventToEveryone: the payload reaches every process, in send order
sendEventToEveryone(queue, payload) == [q \in Procs |-> Append(queue[q], payload)]

\* ------------------------------------------------------------ TeamManager

\* TeamManager.getPlayerTeam on process q: Map.get, null for a missing key
getPlayerTeam(q, p) == IF p \in Players THEN playerTeams[q][p] ELSE None

\* TeamManager.getPlayersOnTeam on process q (the array's order is the map's
\* insertion order, which the model does not keep)
getPlayersOnTeam(q, team) == {p \in Players : playerTeams[q][p] = team}

\* TeamManager.getTeamCounts on process q
getTeamCounts(q) == [red |-> redTeamCount[q], blue |-> blueTeamCount[q]]

\* bug variant: the static map itself is handed out
getAllTeamAssignmentsAliased(q) ==
  [isStatic |-> TRUE, owner |-> q, entries |-> playerTeams[q]]

\* TeamManager.getAllTeamAssignments on process q: new Map(playerTeams)
getAllTeamAssignments(q) ==
  [isStatic |-> FALSE, owner |-> q, entries |-> playerTeams[q]]

\* a component of process q calls one of the public getters
CallGetPlayerTeam(q, p) ==
  /\ returnedTeam' = getPlayerTeam(q, p)
  /\ UNCHANGED <<returnedPlayers, returnedCounts, returnedMap, returnedOk>>
  /\ UNCHANGED <<world, tmVars, cpVars, assigned>>

CallGetPlayersOnTeam(q, team) ==
  /\ returnedPlayers' = getPlayersOnTeam(q, team)
  /\ UNCHANGED <<returnedTeam, returnedCounts, returnedMap, returnedOk>>
  /\ UNCHANGED <<world, tmVars, cpVars, assigned>>

CallGetTeamCounts(q) ==
  /\ returnedCounts' = getTeamCounts(q)
  /\ UNCHANGED <<returnedTeam, returnedPlayers, returnedMap, returnedOk>>
  /\ UNCHANGED <<world, tmVars, cpVars, assigned>>

CallGetAllTeamAssignments(q) ==
  /\ returnedMap' = getAllTeamAssignments(q)
  /\ UNCHANGED <<returnedTeam, returnedPlayers, returnedCounts, returnedOk>>
  /\ UNCHANGED <<world, tmVars, cpVars, assigned>>

\* the caller writes an entry of the Map it got from getAllTeamAssignments;
\* the write lands in the static map if that is the object it holds
CallerSetsEntry(p, team) ==
  /\ returnedMap' = [returnedMap EXCEPT !.entries[p] = team]
  /\ IF returnedMap.isStatic
       THEN playerTeams' = [playerTeams EXCEPT ![returnedMap.owner][p] = team]
       ELSE UNCHANGED playerTeams
  /\ UNCHANGED <<returnedTeam, returnedPlayers, returnedCounts, returnedOk>>
  /\ UNCHANGED <<world, redTeamCount, blueTeamCount, teamQueue, cpVars, assigned>>

\* bug variants of the balancing comparison: the larger team is picked; ties go to Blue
BalancedTeamLarger(red, blue) == IF red >= blue THEN Red ELSE Blue
BalancedTeamStrict(red, blue) == IF red < blue THEN Red ELSE Blue

\* assignPlayerToTeamWithBalancing, line 200: the team picked for the next joiner
BalancedTeam(red, blue) == IF red <= blue THEN Red ELSE Blue

\* TeamManager.broadcastCompleteTeamAssignment: the payload built from the
\* sender's map and counters (the receiver never reads the lists' order)
TeamAssignmentPayload(map, red, blue) ==
  [redTeamPlayers |-> {DebugId(p) : p \in {x \in Players : map[x] = Red}},
   blueTeamPlayers |-> {DebugId(p) : p \in {x \in Players : map[x] = Blue}},
   redTeamCount |-> red,
   blueTeamCount |-> blue]

broadcastCompleteTeamAssignment(map, red, blue) ==
  teamQueue' = sendEventToEveryone(teamQueue, TeamAssignmentPayload(map, red, blue))

\* TeamManager.getEntityById: searches the keys of the local playerTeams map;
\* 0 stands for null
getEntityById(map, debugId) ==
  IF \E p \in Players : map[p] # None /\ DebugId(p) = debugId
    THEN CHOOSE p \in Players : map[p] # None /\ DebugId(p) = debugId
    ELSE 0

\* one `for (const playerId of ...)` loop of onTeamAssignmentUpdate
RECURSIVE RebuildTeam(_, _, _)
RebuildTeam(map, ids, team) ==
  IF ids = {} THEN map
  ELSE LET id == CHOOSE i \in ids : \A j \in ids : i <= j
           playerEntity == getEntityById(map, id)
           next == IF playerEntity # 0
                     THEN [map EXCEPT ![playerEntity] = team]
                     ELSE map
       IN RebuildTeam(next, ids \ {id}, team)

\* the map onTeamAssignmentUpdate leaves: clear(), then the two loops
AppliedTeams(payload) ==
  RebuildTeam(RebuildTeam(EmptyMap, payload.redTeamPlayers, Red),
              payload.blueTeamPlayers, Blue)

\* bug variant: the payload's count is added to the local counter
AppliedCountAdded(count, payloadCount) == count + payloadCount

\* onTeamAssignmentUpdate, lines 182-183: a counter is overwritten by the payload's
AppliedCount(count, payloadCount) == payloadCount

\* TeamManager.onTeamAssignmentUpdate on process q (Execution.Everywhere)
onTeamAssignmentUpdate(q) ==
  /\ teamQueue[q] # << >>
  /\ LET payload == Head(teamQueue[q]) IN
       /\ playerTeams' = [playerTeams EXCEPT ![q] = AppliedTeams(payload)]
       /\ redTeamCount' = [redTeamCount EXCEPT ![q] =
                             AppliedCount(@, payload.redTeamCount)]
       /\ blueTeamCount' = [blueTeamCount EXCEPT ![q] =
                              AppliedCount(@, payload.blueTeamCount)]
  /\ teamQueue' = [teamQueue EXCEPT ![q] = Tail(@)]
  /\ UNCHANGED <<world, cpVars, assigned, events>>

\* TeamManager.onPlayerJoined run by process q for the entity of player p:
\* the ownership test, assignPlayerToTeamWithBalancing, the broadcast
TM_onPlayerJoined(q, p) ==
  LET team == BalancedTeam(redTeamCount[q], blueTeamCount[q])
      red == IF team = Red THEN redTeamCount[q] + 1 ELSE redTeamCount[q]
      blue == IF team = Blue THEN blueTeamCount[q] + 1 ELSE blueTeamCount[q]
      map == [playerTeams[q] EXCEPT ![p] = team]
  IN IF p = NoEntity \/ ~isOwned(q)
       THEN UNCHANGED <<tmVars, assigned>>
       ELSE /\ redTeamCount' = [redTeamCount EXCEPT ![q] = red]
            /\ blueTeamCount' = [blueTeamCount EXCEPT ![q] = blue]
            /\ playerTeams' = [playerTeams EXCEPT ![q] = map]
            /\ broadcastCompleteTeamAssignment(map, red, blue)
            /\ assigned' = [assigned EXCEPT ![p] = team]

\* bug variant: the late-join resend without its test for Neutral
LateJoinPayloadsAlways(q, cps) ==
  {[controlPointEntity |-> c,
    newState |-> currentState[q][c],
    redPlayersCount |-> Cardinality(redPlayersInTrigger[q][c]),
    bluePlayersCount |-> Cardinality(bluePlayersInTrigger[q][c])] : c \in cps}

\* ControlPoint.onPlayerJoined, lines 440-451: the late-join resend of the
\* non-neutral states of the control points of process q
LateJoinPayloads(q, cps) ==
  {[controlPointEntity |-> c,
    newState |-> currentState[q][c],
    redPlayersCount |-> Cardinality(redPlayersInTrigger[q][c]),
    bluePlayersCount |-> Cardinality(bluePlayersInTrigger[q][c])] :
      c \in {x \in cps : currentState[q][x] # Neutral}}

\* the control point instances handle the event one after the other
RECURSIVE SendAll(_, _)
SendAll(queue, payloads) ==
  IF payloads = {} THEN queue
  ELSE LET m == CHOOSE x \in payloads :
                  \A y \in payloads : x.controlPointEntity <= y.controlPointEntity
       IN SendAll(sendEventToEveryone(queue, m), payloads \ {m})

\* ControlPoint.onPlayerJoined of every control point instance of process q
CP_onPlayerJoined(q, p) ==
  /\ IF p = NoEntity \/ ~isOwned(q)
       THEN UNCHANGED cpQueue
       ELSE cpQueue' = SendAll(cpQueue, LateJoinPayloads(q, ControlPoints))
  /\ UNCHANGED <<redPlayersInTrigger, bluePlayersInTrigger, currentState, color,
                 uiScores>>

\* OnPlayerCreateEvent for player p: both subscribers run on the owner
PlayerCreate(p) ==
  /\ world[p] = "out"
  /\ \A o \in Players : o < p => world[o] # "out"
  /\ world' = [world EXCEPT ![p] = "in"]
  /\ TM_onPlayerJoined(Authority, p)
  /\ CP_onPlayerJoined(Authority, p)
  /\ events' = events + 1

\* bug variant: the red counter is decremented for the wrong team
RemovedRedWrongTeam(team, red) == IF team = Blue THEN Max(0, red - 1) ELSE red

\* TeamManager.removePlayerFromTeamWithBalancing: the counters after removal
RemovedRed(team, red) == IF team = Red THEN Max(0, red - 1) ELSE red
RemovedBlue(team, blue) == IF team = Blue THEN Max(0, blue - 1) ELSE blue

\* bug variant: onPlayerLeft without its `if (team)` test
TM_onPlayerLeftUnguarded(q, p) ==
  LET team == playerTeams[q][p]
      red == RemovedRed(team, redTeamCount[q])
      blue == RemovedBlue(team, blueTeamCount[q])
      map == [playerTeams[q] EXCEPT ![p] = None]
  IN IF isOwned(q)
       THEN /\ redTeamCount' = [redTeamCount EXCEPT ![q] = red]
            /\ blueTeamCount' = [blueTeamCount EXCEPT ![q] = blue]
            /\ playerTeams' = [playerTeams EXCEPT ![q] = map]
            /\ broadcastCompleteTeamAssignment(map, red, blue)
       ELSE UNCHANGED tmVars

\* TeamManager.onPlayerLeft run by process q for the entity of player p
TM_onPlayerLeft(q, p) ==
  LET team == getPlayerTeam(q, p)
      red == RemovedRed(team, redTeamCount[q])
      blue == RemovedBlue(team, blueTeamCount[q])
      map == [playerTeams[q] EXCEPT ![p] = None]
  IN IF p # NoEntity /\ isOwned(q) /\ team # None
       THEN /\ redTeamCount' = [redTeamCount EXCEPT ![q] = red]
            /\ blueTeamCount' = [blueTeamCount EXCEPT ![q] = blue]
            /\ playerTeams' = [playerTeams EXCEPT ![q] = map]
            /\ broadcastCompleteTeamAssignment(map, red, blue)
       ELSE UNCHANGED tmVars

\* bug variant: a leaving player is also taken out of every occupant set
PlayerDestroyCleaning(p) ==
  /\ world[p] = "in"
  /\ world' = [world EXCEPT ![p] = "gone"]
  /\ TM_onPlayerLeft(Authority, p)
  /\ assigned' = [assigned EXCEPT ![p] = None]
  /\ events' = events + 1
  /\ redPlayersInTrigger' = [redPlayersInTrigger EXCEPT ![Authority] =
       [c \in ControlPoints |-> redPlayersInTrigger[Authority][c] \ {p}]]
  /\ bluePlayersInTrigger' = [bluePlayersInTrigger EXCEPT ![Authority] =
       [c \in ControlPoints |-> bluePlayersInTrigger[Authority][c] \ {p}]]
  /\ UNCHANGED <<currentState, color, uiScores, cpQueue>>

\* OnPlayerDestroyEvent for player p; no ControlPoint handler subscribes to it
PlayerDestroy(p) ==
  /\ world[p] = "in"
  /\ world' = [world EXCEPT ![p] = "gone"]
  /\ TM_onPlayerLeft(Authority, p)
  /\ assigned' = [assigned EXCEPT ![p] = None]
  /\ events' = events + 1
  /\ UNCHANGED cpVars

\* TeamManager.onStart on process q
TM_onStart(q) ==
  /\ ~instance[q]
  /\ instance' = [instance EXCEPT ![q] = TRUE]
  /\ UNCHANGED <<world, tmVars, cpVars, localVars, deltaVars, callVars, assigned, events, synced>>

\* bug variant: the player's current team keeps its count
assignPlayerToSpecificTeamNoRemoval(q, p, team) ==
  LET red == IF team = Red THEN redTeamCount[q] + 1 ELSE redTeamCount[q]
      blue == IF team = Red THEN blueTeamCount[q] ELSE blueTeamCount[q] + 1
      map == [playerTeams[q] EXCEPT ![p] = team]
  IN /\ world[p] = "in"
     /\ redTeamCount' = [redTeamCount EXCEPT ![q] = red]
     /\ blueTeamCount' = [blueTeamCount EXCEPT ![q] = blue]
     /\ playerTeams' = [playerTeams EXCEPT ![q] = map]
     /\ IF instance[q]
          THEN broadcastCompleteTeamAssignment(map, red, blue)
          ELSE UNCHANGED teamQueue
     /\ assigned' = IF q = Authority THEN [assigned EXCEPT ![p] = team] ELSE assigned
     /\ events' = events + 1
     /\ UNCHANGED <<world, cpVars>>

\* TeamManager.assignPlayerToSpecificTeam(p, team), a public static method
\* with no ownership test, called on process q; it broadcasts if onStart has
\* set TeamManager.instance
assignPlayerToSpecificTeam(q, p, team) ==
  LET currentTeam == playerTeams[q][p]
      red0 == RemovedRed(currentTeam, redTeamCount[q])
      blue0 == RemovedBlue(currentTeam, blueTeamCount[q])
      red == IF team = Red THEN red0 + 1 ELSE red0
      blue == IF team = Red THEN blue0 ELSE blue0 + 1
      map == [playerTeams[q] EXCEPT ![p] = team]
  IN /\ world[p] = "in"
     /\ redTeamCount' = [redTeamCount EXCEPT ![q] = red]
     /\ blueTeamCount' = [blueTeamCount EXCEPT ![q] = blue]
     /\ playerTeams' = [playerTeams EXCEPT ![q] = map]
     /\ IF instance[q]
          THEN broadcastCompleteTeamAssignment(map, red, blue)
          ELSE UNCHANGED teamQueue
     /\ assigned' = IF q = Authority THEN [assigned EXCEPT ![p] = team] ELSE assigned
     /\ events' = events + 1
     /\ UNCHANGED <<world, cpVars>>

\* ----------------------------------------------------------- ControlPoint

\* the transition table: updateControlPointStateAuthority, lines 569-581
TableState(redSet, blueSet) ==
  IF redSet # {} /\ blueSet # {} THEN Contested
  ELSE IF redSet # {} THEN RedControlled
  ELSE IF blueSet # {} THEN BlueControlled
  ELSE Neutral

\* bug variant: the new state is broadcast but not stored
updateControlPointStateAuthoritySendOnly(q, c, redSet, blueSet) ==
  LET newControlPointState == TableState(redSet, blueSet) IN
    IF newControlPointState = currentState[q][c]
      THEN UNCHANGED <<currentState, cpQueue>>
      ELSE /\ UNCHANGED currentState
           /\ cpQueue' = sendEventToEveryone(cpQueue,
                [controlPointEntity |-> c,
                 newState |-> newControlPointState,
                 redPlayersCount |-> Cardinality(redSet),
                 bluePlayersCount |-> Cardinality(blueSet)])

\* ControlPoint.updateControlPointStateAuthority of control point c on
\* process q, the occupant sets being redSet and blueSet
updateControlPointStateAuthority(q, c, redSet, blueSet) ==
  LET newControlPointState == TableState(redSet, blueSet) IN
    IF newControlPointState = currentState[q][c]
      THEN UNCHANGED <<currentState, cpQueue>>
      ELSE /\ currentState' = [currentState EXCEPT ![q][c] = newControlPointState]
           /\ cpQueue' = sendEventToEveryone(cpQueue,
                [controlPointEntity |-> c,
                 newState |-> newControlPointState,
                 redPlayersCount |-> Cardinality(redSet),
                 bluePlayersCount |-> Cardinality(blueSet)])

\* bug variant: a player without a team is counted as a red occupant
onTriggerEnterUnassignedCounted(q, c, p) ==
  LET team == getPlayerTeam(q, p)
      redSet == IF team # Blue THEN redPlayersInTrigger[q][c] \cup {p}
                ELSE redPlayersInTrigger[q][c]
      blueSet == IF team = Blue THEN bluePlayersInTrigger[q][c] \cup {p}
                 ELSE bluePlayersInTrigger[q][c]
  IN /\ world[p] = "in"
     /\ IF ~isOwned(q)
          THEN UNCHANGED cpVars
          ELSE /\ redPlayersInTrigger' = [redPlayersInTrigger EXCEPT ![q][c] = redSet]
               /\ bluePlayersInTrigger' = [bluePlayersInTrigger EXCEPT ![q][c] = blueSet]
               /\ updateControlPointStateAuthority(q, c, redSet, blueSet)
               /\ UNCHANGED <<color, uiScores>>
     /\ UNCHANGED <<world, tmVars, assigned>>

\* ControlPoint.onTriggerEnter of control point c run by process q, the
\* event's actorEntity being p (a player's entity, a prop or nothing)
onTriggerEnter(q, c, p) ==
  LET team == getPlayerTeam(q, p)
      redSet == IF team = Red THEN redPlayersInTrigger[q][c] \cup {p}
                ELSE redPlayersInTrigger[q][c]
      blueSet == IF team = Blue THEN bluePlayersInTrigger[q][c] \cup {p}
                 ELSE bluePlayersInTrigger[q][c]
  IN /\ p \in Players => world[p] = "in"
     /\ IF ~isOwned(q) \/ p = NoEntity \/ ~hasPlayerComponent(p) \/ team = None
          THEN UNCHANGED cpVars
          ELSE /\ redPlayersInTrigger' = [redPlayersInTrigger EXCEPT ![q][c] = redSet]
               /\ bluePlayersInTrigger' = [bluePlayersInTrigger EXCEPT ![q][c] = blueSet]
               /\ updateControlPointStateAuthority(q, c, redSet, blueSet)
               /\ UNCHANGED <<color, uiScores>>
     /\ UNCHANGED <<world, tmVars, assigned>>

\* bug variant: only a player with a team is removed from the occupant sets
onTriggerExitTeamOnly(q, c, p) ==
  LET team == getPlayerTeam(q, p)
      redSet == IF team = None THEN redPlayersInTrigger[q][c]
                ELSE redPlayersInTrigger[q][c] \ {p}
      blueSet == IF team = None THEN bluePlayersInTrigger[q][c]
                 ELSE bluePlayersInTrigger[q][c] \ {p}
  IN /\ world[p] = "in"
     /\ IF ~isOwned(q)
          THEN UNCHANGED cpVars
          ELSE /\ redPlayersInTrigger' = [redPlayersInTrigger EXCEPT ![q][c] = redSet]
               /\ bluePlayersInTrigger' = [bluePlayersInTrigger EXCEPT ![q][c] = blueSet]
               /\ updateControlPointStateAuthority(q, c, redSet, blueSet)
               /\ UNCHANGED <<color, uiScores>>
     /\ UNCHANGED <<world, tmVars, assigned>>

\* ControlPoint.onTriggerExit of control point c run by process q
onTriggerExit(q, c, p) ==
  LET redSet == redPlayersInTrigger[q][c] \ {p}
      blueSet == bluePlayersInTrigger[q][c] \ {p}
  IN /\ p \in Players => world[p] = "in"
     /\ IF ~isOwned(q) \/ p = NoEntity \/ ~hasPlayerComponent(p)
          THEN UNCHANGED cpVars
          ELSE /\ redPlayersInTrigger' = [redPlayersInTrigger EXCEPT ![q][c] = redSet]
               /\ bluePlayersInTrigger' = [bluePlayersInTrigger EXCEPT ![q][c] = blueSet]
               /\ updateControlPointStateAuthority(q, c, redSet, blueSet)
               /\ UNCHANGED <<color, uiScores>>
     /\ UNCHANGED <<world, tmVars, assigned>>

\* bug variant: an instance applies a broadcast meant for another instance
AppliedStateUnfiltered(state, c, payload) == payload.newState

\* onControlPointStateChanged, lines 613-626: the state instance c holds
\* after the payload
AppliedState(state, c, payload) ==
  IF payload.controlPointEntity # c THEN state ELSE payload.newState

\* onControlPointStateChanged, lines 613-628, and updateControlPointColor:
\* the color instance c shows after the payload
AppliedColor(col, c, payload) ==
  IF payload.controlPointEntity # c THEN col ELSE ColorOf(payload.newState)

\* onControlPointStateChanged, lines 613-631, and updateUIScores: the line
\* instance c logged last after the payload
AppliedScores(line, c, payload) ==
  IF payload.controlPointEntity # c THEN line ELSE UILine(payload.newState)

\* bug variant: an instance that already holds payload.newState skips the
\* color and the score update
onControlPointStateChangedSkipSame(q) ==
  /\ cpQueue[q] # << >>
  /\ LET payload == Head(cpQueue[q])
         same(c) == payload.newState = currentState[q][c]
     IN
       /\ currentState' = [currentState EXCEPT ![q] =
            [c \in ControlPoints |-> AppliedState(currentState[q][c], c, payload)]]
       /\ color' = [color EXCEPT ![q] =
            [c \in ControlPoints |->
               IF same(c) THEN color[q][c]
               ELSE AppliedColor(color[q][c], c, payload)]]
       /\ uiScores' = [uiScores EXCEPT ![q] =
            [c \in ControlPoints |->
               IF same(c) THEN uiScores[q][c]
               ELSE AppliedScores(uiScores[q][c], c, payload)]]
  /\ cpQueue' = [cpQueue EXCEPT ![q] = Tail(@)]
  /\ UNCHANGED <<world, tmVars, redPlayersInTrigger, bluePlayersInTrigger,
                 assigned, events>>

\* ControlPoint.onControlPointStateChanged on process q (Execution.Everywhere):
\* every control point instance of q receives the payload
onControlPointStateChanged(q) ==
  /\ cpQueue[q] # << >>
  /\ LET payload == Head(cpQueue[q]) IN
       /\ currentState' = [currentState EXCEPT ![q] =
            [c \in ControlPoints |-> AppliedState(currentState[q][c], c, payload)]]
       /\ color' = [color EXCEPT ![q] =
            [c \in ControlPoints |-> AppliedColor(color[q][c], c, payload)]]
       /\ uiScores' = [uiScores EXCEPT ![q] =
            [c \in ControlPoints |-> AppliedScores(uiScores[q][c], c, payload)]]
  /\ cpQueue' = [cpQueue EXCEPT ![q] = Tail(@)]
  /\ UNCHANGED <<world, tmVars, redPlayersInTrigger, bluePlayersInTrigger,
                 assigned, events>>

\* ------------------------------- ControlPoint, the class without a network

\* ControlPoint.updateControlPointState, lines 242-269: with no occupant the
\* method returns and the state stays
LocalNewState(state, redSet, blueSet) ==
  IF redSet # {} /\ blueSet # {} THEN Contested
  ELSE IF redSet # {} THEN RedControlled
  ELSE IF blueSet # {} THEN BlueControlled
  ELSE state

\* ControlPoint.onPlayerTeamAssigned: a team assignment for player p arrives
\* variant: an assignment arriving after a handled removal of p is dropped
L_onPlayerTeamAssignedTombstone(p, team) ==
  /\ localPlayerTeams' =
       IF \E i \in 1..Len(deltaHandled) :
            /\ deltaSent[deltaHandled[i]].kind = "removed"
            /\ deltaSent[deltaHandled[i]].playerEntity = p
         THEN localPlayerTeams
         ELSE [localPlayerTeams EXCEPT ![p] = team]
  /\ UNCHANGED <<localRed, localBlue, localState, localColor>>

L_onPlayerTeamAssigned(p, team) ==
  /\ localPlayerTeams' = [localPlayerTeams EXCEPT ![p] = team]
  /\ UNCHANGED <<localRed, localBlue, localState, localColor>>

\* ControlPoint.onPlayerTeamRemoved: a team removal for player p arrives
L_onPlayerTeamRemoved(p) ==
  /\ localPlayerTeams' = [localPlayerTeams EXCEPT ![p] = None]
  /\ UNCHANGED <<localRed, localBlue, localState, localColor>>

\* ControlPoint.onTriggerEnter of the class without a network
L_onTriggerEnter(p) ==
  LET team == localPlayerTeams[p]
      redSet == IF team = Red THEN localRed \cup {p} ELSE localRed
      blueSet == IF team = Blue THEN localBlue \cup {p} ELSE localBlue
  IN IF team = None
       THEN UNCHANGED localVars
       ELSE /\ localRed' = redSet
            /\ localBlue' = blueSet
            /\ localState' = LocalNewState(localState, redSet, blueSet)
            /\ localColor' = ColorOf(localState')
            /\ UNCHANGED localPlayerTeams

\* ControlPoint.onTriggerExit of the class without a network
L_onTriggerExit(p) ==
  LET redSet == localRed \ {p}
      blueSet == localBlue \ {p}
  IN /\ localRed' = redSet
     /\ localBlue' = blueSet
     /\ localState' = LocalNewState(localState, redSet, blueSet)
     /\ localColor' = ColorOf(localState')
     /\ UNCHANGED localPlayerTeams

\* ------------------------------------------------------ the specification

\* every broadcast sent so far has been handled by every process
Quiescent == \A q \in Procs : teamQueue[q] = << >> /\ cpQueue[q] = << >>

\* what a step of the networked classes leaves alone besides its own frame
others == <<world, tmVars, cpVars, instance, callVars, assigned, events, synced>>
idle == <<synced, localVars, deltaVars, instance, callVars>>

\* the platform delivers OnPlayerCreateEvent, OnPlayerDestroyEvent and the
\* trigger events to the subscribers of a process that does not own the entity
NonOwnerJoined(q, p) ==
  /\ q # Authority
  /\ TM_onPlayerJoined(q, p)
  /\ CP_onPlayerJoined(q, p)
  /\ UNCHANGED <<world, events>>

NonOwnerLeft(q, p) ==
  /\ q # Authority
  /\ TM_onPlayerLeft(q, p)
  /\ UNCHANGED <<world, cpVars, assigned, events>>

NonOwnerEnter(q, c, p) == q # Authority /\ onTriggerEnter(q, c, p) /\ UNCHANGED events

NonOwnerExit(q, c, p) == q # Authority /\ onTriggerExit(q, c, p) /\ UNCHANGED events

\* the platform delivers an event whose reference cannot be resolved: no
\* entity in a join or leave, no actor or an actor without PlayerComponent
\* in a trigger event
UnresolvedJoined(q) ==
  /\ TM_onPlayerJoined(q, NoEntity)
  /\ CP_onPlayerJoined(q, NoEntity)
  /\ UNCHANGED <<world, events>>

UnresolvedLeft(q) ==
  /\ TM_onPlayerLeft(q, NoEntity)
  /\ UNCHANGED <<world, cpVars, assigned, events>>

UnresolvedEnter(q, c, a) ==
  a \notin Players /\ onTriggerEnter(q, c, a) /\ UNCHANGED events

UnresolvedExit(q, c, a) ==
  a \notin Players /\ onTriggerExit(q, c, a) /\ UNCHANGED events

\* a trigger event of control point c handled by its owner
OwnerEnter(c, p) == onTriggerEnter(Authority, c, p) /\ events' = events + 1
OwnerExit(c, p) == onTriggerExit(Authority, c, p) /\ events' = events + 1

\* The program: platform events and manual assignments on the authority,
\* network events handled by every process in send order.  Trigger events
\* are those of control point X.
Next ==
  \/ \E p \in Players : events < MaxEvents /\ PlayerCreate(p) /\ UNCHANGED idle
  \/ \E p \in Players : events < MaxEvents /\ PlayerDestroy(p) /\ UNCHANGED idle
  \/ \E p \in Players, team \in {Red, Blue} :
       /\ events < MaxEvents
       /\ assignPlayerToSpecificTeam(Authority, p, team)
       /\ UNCHANGED idle
  \/ \E p \in Players : events < MaxEvents /\ OwnerEnter(X, p) /\ UNCHANGED idle
  \/ \E p \in Players : events < MaxEvents /\ OwnerExit(X, p) /\ UNCHANGED idle
  \/ \E q \in Procs : onTeamAssignmentUpdate(q) /\ UNCHANGED idle
  \/ \E q \in Procs : onControlPointStateChanged(q) /\ UNCHANGED idle

Spec == Init /\ [][Next]_vars

\* The program when no player leaves and nobody is assigned by hand
NoLeaveNext ==
  \/ \E p \in Players : events < MaxEvents /\ PlayerCreate(p) /\ UNCHANGED idle
  \/ \E p \in Players : events < MaxEvents /\ OwnerEnter(X, p) /\ UNCHANGED idle
  \/ \E p \in Players : events < MaxEvents /\ OwnerExit(X, p) /\ UNCHANGED idle
  \/ \E q \in Procs : onTeamAssignmentUpdate(q) /\ UNCHANGED idle
  \/ \E q \in Procs : onControlPointStateChanged(q) /\ UNCHANGED idle

NoLeaveSpec == Init /\ [][NoLeaveNext]_vars

\* The end-to-end scenario of the specification: player A joins, player B
\* joins, A enters X, B enters X, A exits X, B exits X, the broadcasts being
\* handled at any time.  synced records whether every event so far happened
\* with all earlier broadcasts handled by every process.
ScenarioPlayers == <<1, 2>>
PlayerA == ScenarioPlayers[1]
PlayerB == ScenarioPlayers[2]

ScenarioEvent ==
  \/ events = 0 /\ PlayerCreate(PlayerA)
  \/ events = 1 /\ PlayerCreate(PlayerB)
  \/ events = 2 /\ OwnerEnter(X, PlayerA)
  \/ events = 3 /\ OwnerEnter(X, PlayerB)
  \/ events = 4 /\ OwnerExit(X, PlayerA)
  \/ events = 5 /\ OwnerExit(X, PlayerB)

ScenarioNext ==
  \/ /\ ScenarioEvent
     /\ synced' = (synced /\ Quiescent)
     /\ UNCHANGED <<localVars, deltaVars, instance, callVars>>
  \/ \E q \in Procs : onTeamAssignmentUpdate(q) /\ UNCHANGED idle
  \/ \E q \in Procs : onControlPointStateChanged(q) /\ UNCHANGED idle

ScenarioSpec == Init /\ [][ScenarioNext]_vars

\* One player touching control point X again and again: player A joins, then
\* enters and leaves X in any order, the broadcasts being handled at any time
MaxTouches == MaxEvents + 1

TouchNext ==
  \/ events = 0 /\ PlayerCreate(PlayerA) /\ UNCHANGED idle
  \/ events \in 1..MaxTouches /\ OwnerEnter(X, PlayerA) /\ UNCHANGED idle
  \/ events \in 1..MaxTouches /\ OwnerExit(X, PlayerA) /\ UNCHANGED idle
  \/ \E q \in Procs : onTeamAssignmentUpdate(q) /\ UNCHANGED idle
  \/ \E q \in Procs : onControlPointStateChanged(q) /\ UNCHANGED idle

TouchSpec == Init /\ [][TouchNext]_vars

\* The program with trigger events on both control points, when no player
\* leaves and nobody is assigned by hand
TwoPointNext ==
  \/ \E p \in Players : events < MaxEvents /\ PlayerCreate(p) /\ UNCHANGED idle
  \/ \E c \in ControlPoints, p \in Players :
       events < MaxEvents /\ OwnerEnter(c, p) /\ UNCHANGED idle
  \/ \E c \in ControlPoints, p \in Players :
       events < MaxEvents /\ OwnerExit(c, p) /\ UNCHANGED idle
  \/ \E q \in Procs : onTeamAssignmentUpdate(q) /\ UNCHANGED idle
  \/ \E q \in Procs : onControlPointStateChanged(q) /\ UNCHANGED idle

TwoPointSpec == Init /\ [][TwoPointNext]_vars

\* The program with two players when every process runs every handler: the
\* platform events reach the subscribers of the process that does not own the
\* entity too, and assignPlayerToSpecificTeam is called on that process
EveryProcessNext ==
  \/ \E p \in {PlayerA, PlayerB} :
       events < MaxEvents /\ PlayerCreate(p) /\ UNCHANGED idle
  \/ \E p \in {PlayerA, PlayerB} :
       events < MaxEvents /\ PlayerDestroy(p) /\ UNCHANGED idle
  \/ \E q \in Procs \ {Authority}, p \in {PlayerA, PlayerB}, team \in {Red, Blue} :
       events < MaxEvents /\ assignPlayerToSpecificTeam(q, p, team) /\ UNCHANGED idle
  \/ \E p \in {PlayerA, PlayerB} :
       events < MaxEvents /\ OwnerEnter(X, p) /\ UNCHANGED idle
  \/ \E p \in {PlayerA, PlayerB} :
       events < MaxEvents /\ OwnerExit(X, p) /\ UNCHANGED idle
  \/ \E q \in Procs : onTeamAssignmentUpdate(q) /\ UNCHANGED idle
  \/ \E q \in Procs : onControlPointStateChanged(q) /\ UNCHANGED idle
  \/ \E q \in Procs, p \in {PlayerA, PlayerB} : NonOwnerJoined(q, p) /\ UNCHANGED idle
  \/ \E q \in Procs, p \in {PlayerA, PlayerB} : NonOwnerLeft(q, p) /\ UNCHANGED idle
  \/ \E q \in Procs, p \in {PlayerA, PlayerB} : NonOwnerEnter(q, X, p) /\ UNCHANGED idle
  \/ \E q \in Procs, p \in {PlayerA, PlayerB} : NonOwnerExit(q, X, p) /\ UNCHANGED idle
  \/ \E q \in Procs : UnresolvedJoined(q) /\ UNCHANGED idle
  \/ \E q \in Procs : UnresolvedLeft(q) /\ UNCHANGED idle
  \/ \E q \in Procs, a \in Actors : UnresolvedEnter(q, X, a) /\ UNCHANGED idle
  \/ \E q \in Procs, a \in Actors : UnresolvedExit(q, X, a) /\ UNCHANGED idle

EveryProcessSpec == Init /\ [][EveryProcessNext]_vars

\* Components reading the roster: two players join and leave, snapshots are
\* handled, and on either process the public getters are called and the
\* returned Map is written to
GetterCall ==
  \/ \E q \in Procs, p \in Players : CallGetPlayerTeam(q, p)
  \/ \E q \in Procs, team \in {Red, Blue} : CallGetPlayersOnTeam(q, team)
  \/ \E q \in Procs : CallGetTeamCounts(q)
  \/ \E q \in Procs : CallGetAllTeamAssignments(q)
  \/ \E p \in Players, team \in {Red, Blue} : CallerSetsEntry(p, team)

ReaderNext ==
  \/ \E p \in {PlayerA, PlayerB} :
       events < MaxEvents /\ PlayerCreate(p) /\ UNCHANGED idle
  \/ \E p \in {PlayerA, PlayerB} :
       events < MaxEvents /\ PlayerDestroy(p) /\ UNCHANGED idle
  \/ \E q \in Procs : onTeamAssignmentUpdate(q) /\ UNCHANGED idle
  \/ /\ events < MaxEvents
     /\ GetterCall
     /\ events' = events + 1
     /\ UNCHANGED <<synced, localVars, deltaVars, instance>>

ReaderSpec == Init /\ [][ReaderNext]_vars

\* a component of process q calls assignPlayerToSpecificTeam and keeps what
\* it returns
CallAssign(q, p, team) ==
  /\ assignPlayerToSpecificTeam(q, p, team)
  /\ returnedOk' = TRUE
  /\ UNCHANGED <<returnedTeam, returnedPlayers, returnedCounts, returnedMap>>

\* Manual assignment from the start of the session: the TeamManager of each
\* process starts at some time, two players join and leave, either process
\* calls assignPlayerToSpecificTeam, snapshots are handled at any time
ManualNext ==
  \/ \E q \in Procs : TM_onStart(q)
  \/ \E p \in {PlayerA, PlayerB} :
       events < MaxEvents /\ PlayerCreate(p) /\ UNCHANGED idle
  \/ \E p \in {PlayerA, PlayerB} :
       events < MaxEvents /\ PlayerDestroy(p) /\ UNCHANGED idle
  \/ \E q \in Procs, p \in {PlayerA, PlayerB}, team \in {Red, Blue} :
       /\ events < MaxEvents
       /\ CallAssign(q, p, team)
       /\ UNCHANGED <<synced, localVars, deltaVars, instance>>
  \/ \E q \in Procs : onTeamAssignmentUpdate(q) /\ UNCHANGED idle

ManualSpec == ColdInit /\ [][ManualNext]_vars

\* The class without a network: assignments and removals arrive for any
\* player in any order, any player's entity enters or leaves the trigger
LocalStep ==
  \/ \E p \in Players, team \in {Red, Blue} : L_onPlayerTeamAssigned(p, team)
  \/ \E p \in Players : L_onPlayerTeamRemoved(p)
  \/ \E p \in Players : L_onTriggerEnter(p)
  \/ \E p \in Players : L_onTriggerExit(p)

\* A scene holding control points of both classes
BothNext ==
  \/ NoLeaveNext
  \/ /\ events < MaxEvents
     /\ LocalStep
     /\ events' = events + 1
     /\ UNCHANGED <<world, tmVars, cpVars, deltaVars, instance, callVars, assigned, synced>>

BothSpec == Init /\ [][BothNext]_vars

\* the last PlayerTeamAssigned/Removed event sent for player p (0: none)
LastFor(p) ==
  LET I == {i \in 1..Len(deltaSent) : deltaSent[i].playerEntity = p}
  IN IF I = {} THEN 0 ELSE CHOOSE i \in I : \A j \in I : j <= i

\* the team the sender of the events has for player p
SenderTeam(p) ==
  IF LastFor(p) = 0 \/ deltaSent[LastFor(p)].kind = "removed"
    THEN None
    ELSE deltaSent[LastFor(p)].team

\* PlayerTeamAssignedPayload and PlayerTeamRemovedPayload (the counts are
\* not read by the handlers)
Delta(kind, p, team) == [kind |-> kind, playerEntity |-> p, team |-> team]

\* the authority assigns player p and sends PlayerTeamAssignedNetworkEvent
SendAssigned(p, team) ==
  /\ Len(deltaSent) < MaxEvents
  /\ SenderTeam(p) = None
  /\ deltaSent' = Append(deltaSent, Delta("assigned", p, team))
  /\ UNCHANGED <<deltaHandled, localVars>>

\* the authority removes player p and sends PlayerTeamRemovedNetworkEvent
SendRemoved(p) ==
  /\ Len(deltaSent) < MaxEvents
  /\ SenderTeam(p) # None
  /\ deltaSent' = Append(deltaSent, Delta("removed", p, SenderTeam(p)))
  /\ UNCHANGED <<deltaHandled, localVars>>

\* the positions in deltaSent not handled yet
DeltaInFlight ==
  {i \in 1..Len(deltaSent) :
     \A k \in 1..Len(deltaHandled) : deltaHandled[k] # i}

\* the network delivers event i, in any order, to the subscribed handler
HandleDelta(i) ==
  /\ i \in DeltaInFlight
  /\ IF deltaSent[i].kind = "assigned"
       THEN L_onPlayerTeamAssigned(deltaSent[i].playerEntity, deltaSent[i].team)
       ELSE L_onPlayerTeamRemoved(deltaSent[i].playerEntity)
  /\ deltaHandled' = Append(deltaHandled, i)
  /\ UNCHANGED deltaSent

\* The registry of the first ControlPoint class fed, for two players, by a
\* transport that does not keep the order of the events
DeltaNext ==
  \/ \E p \in {PlayerA, PlayerB}, team \in {Red, Blue} :
       SendAssigned(p, team) /\ UNCHANGED others
  \/ \E p \in {PlayerA, PlayerB} : SendRemoved(p) /\ UNCHANGED others
  \/ \E i \in 1..MaxEvents : HandleDelta(i) /\ UNCHANGED others

DeltaSpec == Init /\ [][DeltaNext]_vars

\* ------------------------------------------------------------- properties

OnTeam(map, team) == {p \in Players : map[p] = team}
Abs(n) == IF n < 0 THEN -n ELSE n
IsAppend(queue, longer) ==
  /\ Len(longer) = Len(queue) + 1
  /\ SubSeq(longer, 1, Len(queue)) = queue

\* C1: on the authority the state of every control point always equals the
\* transition table applied to its two occupant sets.
C1_StateMatchesTable ==
  \A c \in ControlPoints :
    currentState[Authority][c] =
      TableState(redPlayersInTrigger[Authority][c],
                 bluePlayersInTrigger[Authority][c])

\* C2: when every broadcast has been handled by every process, every
\* process's state of every control point equals the table value of the
\* authority's occupant sets.
C2_QuiescentStateAgrees ==
  Quiescent =>
    \A q \in Procs, c \in ControlPoints :
      currentState[q][c] =
        TableState(redPlayersInTrigger[Authority][c],
                 bluePlayersInTrigger[Authority][c])

\* C3: after onTeamAssignmentUpdate the local map holds exactly the players
\* the payload enumerates, each under the payload's team, and the counters
\* are the payload's.
C3_SnapshotReplacesMirror ==
  [][\A q \in Procs :
       onTeamAssignmentUpdate(q) =>
         LET payload == Head(teamQueue[q]) IN
           /\ \A p \in Players :
                playerTeams'[q][p] =
                  IF DebugId(p) \in payload.redTeamPlayers THEN Red
                  ELSE IF DebugId(p) \in payload.blueTeamPlayers THEN Blue
                  ELSE None
           /\ redTeamCount'[q] = payload.redTeamCount
           /\ blueTeamCount'[q] = payload.blueTeamCount]_vars

\* C4: on the authority each counter always equals the number of map entries
\* of its team.
C4_CountsMatchRoster ==
  /\ redTeamCount[Authority] = Cardinality(OnTeam(playerTeams[Authority], Red))
  /\ blueTeamCount[Authority] = Cardinality(OnTeam(playerTeams[Authority], Blue))

\* C5: when every broadcast has been handled by every process, every
\* process's map holds exactly the present players, each under the team the
\* authority assigned, and its counters count them.
C5_QuiescentRosterAgrees ==
  Quiescent =>
    \A q \in Procs :
      /\ playerTeams[q] = assigned
      /\ redTeamCount[q] = Cardinality(OnTeam(assigned, Red))
      /\ blueTeamCount[q] = Cardinality(OnTeam(assigned, Blue))

\* C6: in the end-to-end scenario with every broadcast handled before the
\* next event, A is Red with counters (1,0), B is Blue with counters (1,1),
\* and X is RedControlled, Contested, BlueControlled and Neutral after the
\* third, fourth, fifth and sixth event.
C6_Scenario ==
  (synced /\ Quiescent) =>
    /\ events = 1 => /\ assigned[PlayerA] = Red
                     /\ redTeamCount[Authority] = 1 /\ blueTeamCount[Authority] = 0
    /\ events = 2 => /\ assigned[PlayerB] = Blue
                     /\ redTeamCount[Authority] = 1 /\ blueTeamCount[Authority] = 1
    /\ events = 3 => \A q \in Procs : currentState[q][X] = RedControlled
    /\ events = 4 => \A q \in Procs : currentState[q][X] = Contested
    /\ events = 5 => \A q \in Procs : currentState[q][X] = BlueControlled
    /\ events = 6 => \A q \in Procs : currentState[q][X] = Neutral

\* C7: with joins only (no leave, no manual assignment), under any
\* interleaving of deliveries, the authority's counters differ by at most 1.
C7_CountersBalanced ==
  Abs(redTeamCount[Authority] - blueTeamCount[Authority]) <= 1

\* three players joined while a delivered snapshot had reset the counters
C7_Witness ==
  /\ \A p \in 1..3 : world[p] = "in"
  /\ redTeamCount[Authority] + blueTeamCount[Authority] < 3

\* C8: a join on the authority picks Red when redTeamCount <= blueTeamCount
\* and Blue otherwise, adds one to that counter alone, records the team in
\* playerTeams and sends exactly one TeamAssignment broadcast.
C8_JoinAssigns ==
  [][\A p \in Players :
       PlayerCreate(p) =>
         LET red == redTeamCount[Authority]
             blue == blueTeamCount[Authority]
             team == IF red <= blue THEN Red ELSE Blue
         IN /\ playerTeams'[Authority][p] = team
            /\ redTeamCount'[Authority] = IF team = Red THEN red + 1 ELSE red
            /\ blueTeamCount'[Authority] = IF team = Blue THEN blue + 1 ELSE blue
            /\ \A q \in Procs : IsAppend(teamQueue[q], teamQueue'[q])]_vars

\* two joins have acted: the first went to Red on a tie, the second to Blue
C8_Witness ==
  /\ playerTeams[Authority][PlayerA] = Red
  /\ playerTeams[Authority][PlayerB] = Blue
  /\ redTeamCount[Authority] = 1 /\ blueTeamCount[Authority] = 1
  /\ Len(teamQueue[Replica]) = 2

\* C9: a leave of a player with a map entry takes exactly one off that
\* player's team counter (which stays >= 0), leaves the other counter alone,
\* removes the entry and sends exactly one broadcast that carries the map
\* and counters as they are after the removal.
C9_LeaveRemoves ==
  [][\A p \in Players :
       (PlayerDestroy(p) /\ playerTeams[Authority][p] # None) =>
         LET team == playerTeams[Authority][p]
             red == redTeamCount[Authority]
             blue == blueTeamCount[Authority]
             sent == [redTeamPlayers |->
                        {DebugId(x) : x \in OnTeam(playerTeams'[Authority], Red)},
                      blueTeamPlayers |->
                        {DebugId(x) : x \in OnTeam(playerTeams'[Authority], Blue)},
                      redTeamCount |-> redTeamCount'[Authority],
                      blueTeamCount |-> blueTeamCount'[Authority]]
         IN /\ playerTeams'[Authority] = [playerTeams[Authority] EXCEPT ![p] = None]
            /\ redTeamCount'[Authority] = IF team = Red THEN red - 1 ELSE red
            /\ blueTeamCount'[Authority] = IF team = Blue THEN blue - 1 ELSE blue
            /\ redTeamCount'[Authority] >= 0 /\ blueTeamCount'[Authority] >= 0
            /\ \A q \in Procs : teamQueue'[q] = Append(teamQueue[q], sent)]_vars

\* A joined and left, and the replica holds both broadcasts: the leave found
\* A's entry and sent the second one
C9_Witness ==
  /\ events = 2
  /\ world[PlayerA] = "gone"
  /\ Len(teamQueue[Replica]) = 2
  /\ redTeamCount[Authority] = 0

\* C10: a leave of a player without a map entry changes neither the map nor
\* the counters, sends no broadcast, and leaves no counter negative.
C10_LeaveWithoutEntry ==
  [][\A p \in Players :
       (PlayerDestroy(p) /\ playerTeams[Authority][p] = None) =>
         /\ UNCHANGED <<playerTeams, redTeamCount, blueTeamCount, teamQueue>>
         /\ \A q \in Procs : redTeamCount'[q] >= 0 /\ blueTeamCount'[q] >= 0]_vars

\* A joined and left and only the join's broadcast was ever sent: the leave
\* found no entry for A
C10_Witness ==
  /\ events = 2
  /\ world[PlayerA] = "gone"
  /\ Len(teamQueue[Replica]) = 1
  /\ redTeamCount[Replica] = 0 /\ playerTeams[Replica] = EmptyMap
  /\ redTeamCount[Authority] = 1

\* C11: a trigger-enter from a player for whom the team lookup returns no
\* team leaves both occupant sets and the state unchanged and sends no
\* ControlPointStateChanged broadcast, in the networked class (on every
\* process) and in the class without a network.
C11_UnassignedEnterIgnored ==
  [][/\ \A q \in Procs, c \in ControlPoints, p \in Players :
          (onTriggerEnter(q, c, p) /\ getPlayerTeam(q, p) = None) =>
             UNCHANGED <<redPlayersInTrigger, bluePlayersInTrigger,
                         currentState, cpQueue>>
     /\ \A p \in Players :
          (L_onTriggerEnter(p) /\ localPlayerTeams[p] = None) =>
             UNCHANGED <<localRed, localBlue, localState>>]_vars

\* a created player whose team entry the authority lost has touched X (the
\* event is counted, the point is untouched), and the class without a
\* network holds occupants while some player has no entry in its registry
C11_Witness ==
  /\ \E p \in Players : world[p] = "in" /\ playerTeams[Authority][p] = None
  /\ events = 3
  /\ Cardinality({p \in Players : world[p] = "in"}) = 1
  /\ localPlayerTeams = EmptyMap
  /\ localState = Neutral
  /\ redPlayersInTrigger[Authority][X] = {}
  /\ cpQueue[Authority] = << >> /\ cpQueue[Replica] = << >>

\* C12: a trigger-enter of control point c by a player who is already in the
\* occupant set of the team the authority has for them (they entered before,
\* did not leave, and their team did not change) leaves the sizes of both
\* occupant sets unchanged and sends no broadcast.
AlreadyInside(c, p) ==
  \/ getPlayerTeam(Authority, p) = Red /\ p \in redPlayersInTrigger[Authority][c]
  \/ getPlayerTeam(Authority, p) = Blue /\ p \in bluePlayersInTrigger[Authority][c]

C12_NoDoubleCount ==
  [][\A c \in ControlPoints, p \in Players :
       (OwnerEnter(c, p) /\ AlreadyInside(c, p)) =>
          /\ Cardinality(redPlayersInTrigger'[Authority][c]) =
               Cardinality(redPlayersInTrigger[Authority][c])
          /\ Cardinality(bluePlayersInTrigger'[Authority][c]) =
               Cardinality(bluePlayersInTrigger[Authority][c])
          /\ cpQueue' = cpQueue]_vars

\* C13: a trigger-enter or trigger-exit on the authority that changes the
\* transition-table value of the occupant sets sends exactly one broadcast,
\* carrying the new table value, to every process; one that does not change
\* the table value sends none; whatever broadcasts were handled in between.
TableValue(c) ==
  TableState(redPlayersInTrigger[Authority][c], bluePlayersInTrigger[Authority][c])

TableValueAfter(c) ==
  TableState(redPlayersInTrigger'[Authority][c], bluePlayersInTrigger'[Authority][c])

C13_OneBroadcastPerChange ==
  [][\A c \in ControlPoints, p \in Players :
       (OwnerEnter(c, p) \/ OwnerExit(c, p)) =>
          IF TableValueAfter(c) # TableValue(c)
            THEN \A q \in Procs :
                   /\ IsAppend(cpQueue[q], cpQueue'[q])
                   /\ cpQueue'[q][Len(cpQueue'[q])].controlPointEntity = c
                   /\ cpQueue'[q][Len(cpQueue'[q])].newState = TableValueAfter(c)
            ELSE cpQueue' = cpQueue]_vars

\* C14: when a player joins, the authority sends, for every control point
\* whose state is not Neutral, exactly one broadcast carrying the control
\* point, its current state and the sizes of its occupant sets, and nothing
\* for a Neutral control point; the join changes no occupant set, state or
\* color.
CatchUpPayload(c) ==
  [controlPointEntity |-> c,
   newState |-> currentState[Authority][c],
   redPlayersCount |-> Cardinality(redPlayersInTrigger[Authority][c]),
   bluePlayersCount |-> Cardinality(bluePlayersInTrigger[Authority][c])]

SentOn(q) == {i \in 1..Len(cpQueue'[q]) : i > Len(cpQueue[q])}

C14_LateJoinCatchUp ==
  [][\A p \in Players :
       PlayerCreate(p) =>
         /\ UNCHANGED <<redPlayersInTrigger, bluePlayersInTrigger, currentState, color>>
         /\ \A q \in Procs :
              /\ Len(cpQueue'[q]) >= Len(cpQueue[q])
              /\ SubSeq(cpQueue'[q], 1, Len(cpQueue[q])) = cpQueue[q]
              /\ \A c \in ControlPoints :
                   Cardinality({i \in SentOn(q) :
                                  cpQueue'[q][i].controlPointEntity = c}) =
                     IF currentState[Authority][c] # Neutral THEN 1 ELSE 0
              /\ \A i \in SentOn(q) :
                   cpQueue'[q][i] = CatchUpPayload(cpQueue'[q][i].controlPointEntity)]_vars

\* player 1 joined and entered X, then player 2 joined: the other process has
\* two RedControlled broadcasts in flight, the second being the resend
C14_Witness ==
  /\ events = 3
  /\ {p \in Players : world[p] = "in"} = {1, 2}
  /\ redPlayersInTrigger[Authority][X] = {1}
  /\ Len(teamQueue[Replica]) = 2
  /\ Len(cpQueue[Replica]) = 2
  /\ cpQueue[Replica][1] = cpQueue[Replica][2]
  /\ cpQueue[Replica][2].newState = RedControlled
  /\ currentState[Authority][Y] = Neutral

\* C15: the TeamAssignment snapshot the authority broadcasts on a player
\* join lists every player who has joined and not left, each under the team
\* assigned to them, and nobody else, whatever earlier snapshots the
\* authority has handled itself.
LastSent(q) == teamQueue'[q][Len(teamQueue'[q])]

C15_JoinSnapshotComplete ==
  [][\A p \in Players :
       PlayerCreate(p) =>
         \A q \in Procs :
           /\ LastSent(q).redTeamPlayers =
                {DebugId(x) : x \in OnTeam(assigned', Red)}
           /\ LastSent(q).blueTeamPlayers =
                {DebugId(x) : x \in OnTeam(assigned', Blue)}]_vars

\* C16: for every process and every TeamAssignment or
\* ControlPointStateChanged payload in flight to it, handling the payload a
\* second time right after the first leaves the process's roster, team
\* counters and control point states as the first handling left them.
TeamStateAfter(map, red, blue, payload) ==
  [playerTeams |-> AppliedTeams(payload),
   redTeamCount |-> AppliedCount(red, payload.redTeamCount),
   blueTeamCount |-> AppliedCount(blue, payload.blueTeamCount)]

PointStatesAfter(states, payload) ==
  [c \in ControlPoints |-> AppliedState(states[c], c, payload)]

InFlight(queue) == {queue[i] : i \in 1..Len(queue)}

C16_ApplyIdempotent ==
  \A q \in Procs :
    /\ \A payload \in InFlight(teamQueue[q]) :
         LET once == TeamStateAfter(playerTeams[q], redTeamCount[q],
                                    blueTeamCount[q], payload)
         IN TeamStateAfter(once.playerTeams, once.redTeamCount,
                           once.blueTeamCount, payload) = once
    /\ \A payload \in InFlight(cpQueue[q]) :
         LET once == PointStatesAfter(currentState[q], payload)
         IN PointStatesAfter(once, payload) = once

\* the authority has one of its own snapshots in flight whose counters both
\* differ from its own and whose handling changes its roster, and the other
\* process has a control point broadcast in flight that changes its state
C16_Witness ==
  /\ \E payload \in InFlight(teamQueue[Authority]) :
       /\ payload.redTeamCount # redTeamCount[Authority]
       /\ payload.blueTeamCount # blueTeamCount[Authority]
       /\ AppliedTeams(payload) # playerTeams[Authority]
  /\ \E payload \in InFlight(cpQueue[Replica]) :
       PointStatesAfter(currentState[Replica], payload) # currentState[Replica]

\* C17: when a process that does not own the entity runs
\* TeamManager.onPlayerJoined, TeamManager.onPlayerLeft or the networked
\* ControlPoint's onPlayerJoined, onTriggerEnter or onTriggerExit, the roster,
\* the team counters, the occupant sets and the states of every process are
\* unchanged and no broadcast is sent.
C17_NonOwnerHandlersReturn ==
  [][\A q \in Procs \ {Authority}, c \in ControlPoints, p \in Players :
       (\/ NonOwnerJoined(q, p)
        \/ NonOwnerLeft(q, p)
        \/ NonOwnerEnter(q, c, p)
        \/ NonOwnerExit(q, c, p)) =>
          UNCHANGED <<playerTeams, redTeamCount, blueTeamCount,
                      redPlayersInTrigger, bluePlayersInTrigger, currentState,
                      teamQueue, cpQueue>>]_vars

\* the other process holds a team for a created player and a non-neutral
\* state of X: the handlers it runs for that player would write or send if
\* the ownership test let them through
C17_Witness ==
  \E p \in Players :
    /\ world[p] = "in"
    /\ playerTeams[Replica][p] # None
    /\ currentState[Replica][X] # Neutral
    /\ ENABLED NonOwnerJoined(Replica, p)
    /\ ENABLED NonOwnerLeft(Replica, p)
    /\ ENABLED NonOwnerEnter(Replica, X, p)
    /\ ENABLED NonOwnerExit(Replica, X, p)

\* C18: on a process other than the authority the roster and the team
\* counters change only in a step that handles a TeamAssignment broadcast,
\* and assignPlayerToSpecificTeam called there writes nothing and sends
\* nothing.
C18_ReplicaRosterReadOnly ==
  [][\A q \in Procs \ {Authority} :
       /\ (\/ playerTeams'[q] # playerTeams[q]
           \/ redTeamCount'[q] # redTeamCount[q]
           \/ blueTeamCount'[q] # blueTeamCount[q]) => onTeamAssignmentUpdate(q)
       /\ \A p \in Players, team \in {Red, Blue} :
            assignPlayerToSpecificTeam(q, p, team) =>
              UNCHANGED <<playerTeams, redTeamCount, blueTeamCount, teamQueue>>]_vars

\* C19: when a process handles a ControlPointStateChanged broadcast tagged
\* with one control point, the state and the color of every other control
\* point instance of that process, and of every instance of the other
\* processes, are unchanged.
C19_OtherPointsUntouched ==
  [][\A q \in Procs :
       onControlPointStateChanged(q) =>
         /\ \A c \in ControlPoints \ {Head(cpQueue[q]).controlPointEntity} :
              /\ currentState'[q][c] = currentState[q][c]
              /\ color'[q][c] = color[q][c]
         /\ \A o \in Procs \ {q} :
              currentState'[o] = currentState[o] /\ color'[o] = color[o]]_vars

\* the other process shows Y as held and has handled a broadcast for X whose
\* state differs from Y's: X went back to Neutral while Y stayed held
C19_Witness ==
  /\ currentState[Replica][Y] = RedControlled
  /\ color[Replica][Y] = "red"
  /\ currentState[Replica][X] = Neutral
  /\ color[Replica][X] = Gray
  /\ cpQueue[Replica] = << >>
  /\ events = 4
  /\ redPlayersInTrigger[Authority] = [c \in ControlPoints |-> IF c = Y THEN {1} ELSE {}]
  /\ Cardinality({p \in Players : world[p] = "in"}) = 1

\* C20: a trigger-exit of control point c by player p on the authority
\* removes p from both occupant sets of c whether or not p has a team, sets
\* the state to the table value of the remaining occupants, and sends one
\* broadcast carrying that value if it differs from the state before, none
\* if it does not.
C20_ExitRemovesAndRecomputes ==
  [][\A c \in ControlPoints, p \in Players :
       OwnerExit(c, p) =>
         /\ redPlayersInTrigger'[Authority][c] = redPlayersInTrigger[Authority][c] \ {p}
         /\ bluePlayersInTrigger'[Authority][c] = bluePlayersInTrigger[Authority][c] \ {p}
         /\ currentState'[Authority][c] = TableValueAfter(c)
         /\ IF TableValueAfter(c) # currentState[Authority][c]
              THEN \A q \in Procs :
                     /\ IsAppend(cpQueue[q], cpQueue'[q])
                     /\ cpQueue'[q][Len(cpQueue'[q])].controlPointEntity = c
                     /\ cpQueue'[q][Len(cpQueue'[q])].newState = TableValueAfter(c)
              ELSE cpQueue' = cpQueue]_vars

\* player 1 entered X as Red, the authority then lost player 1's team entry
\* by handling its own snapshot, player 2 joined (the RedControlled state
\* was resent), and player 1, now without a team, left X: the red set is
\* empty and a Neutral broadcast followed the two RedControlled ones
C20_Witness ==
  /\ events = 4
  /\ world[1] = "in" /\ world[2] = "in"
  /\ playerTeams[Authority][1] = None
  /\ playerTeams[Authority][2] = Blue
  /\ redPlayersInTrigger[Authority][X] = {}
  /\ Len(cpQueue[Replica]) = 3
  /\ cpQueue[Replica][1].newState = RedControlled
  /\ cpQueue[Replica][2].newState = RedControlled
  /\ cpQueue[Replica][3].newState = Neutral

\* C21: getPlayerTeam returns the team the local map stores for the player
\* and null exactly when the player has no entry; none of the four getters
\* changes the map or the counters, and writing to the Map that
\* getAllTeamAssignments returned does not change the map.
C21_GettersReadOnly ==
  [][/\ \A q \in Procs, p \in Players :
          CallGetPlayerTeam(q, p) =>
            /\ returnedTeam' = playerTeams[q][p]
            /\ (returnedTeam' = None) <=> (playerTeams[q][p] \notin {Red, Blue})
     /\ \A q \in Procs, team \in {Red, Blue} :
          CallGetPlayersOnTeam(q, team) =>
            returnedPlayers' = OnTeam(playerTeams[q], team)
     /\ \A q \in Procs :
          CallGetTeamCounts(q) =>
            returnedCounts' = [red |-> redTeamCount[q], blue |-> blueTeamCount[q]]
     /\ \A q \in Procs :
          CallGetAllTeamAssignments(q) => returnedMap'.entries = playerTeams[q]
     /\ GetterCall => UNCHANGED <<playerTeams, redTeamCount, blueTeamCount>>]_vars

\* player 1 joined as Red, a caller got the authority's assignments and
\* wrote Blue for player 1 into the Map it received, then asked for player
\* 1's team and got Red
C21_Witness ==
  /\ events = 4
  /\ {p \in Players : world[p] # "out"} = {1}
  /\ Len(teamQueue[Replica]) = 1
  /\ playerTeams[Authority][1] = Red
  /\ returnedMap.owner = Authority
  /\ returnedMap.entries[1] = Blue
  /\ returnedTeam = Red

\* C22: right after the authority's onTriggerEnter or onTriggerExit handler
\* has run for a player with a team, the state of the control point equals
\* the transition-table value of its occupant sets as they then are,
\* whatever the state was before.
C22_HandlerRestoresTable ==
  [][\A c \in ControlPoints, p \in Players :
       ((OwnerEnter(c, p) \/ OwnerExit(c, p)) /\ getPlayerTeam(Authority, p) # None) =>
          currentState'[Authority][c] = TableValueAfter(c)]_vars

\* player 1 (Red) entered and left X, the authority's own RedControlled
\* broadcast then set its state back to RedControlled, and a further
\* trigger-exit of player 1 recomputed Neutral and broadcast it again
C22_Witness ==
  /\ events = 4
  /\ {p \in Players : world[p] # "out"} = {1}
  /\ playerTeams[Authority][1] = Red
  /\ currentState[Authority][X] = Neutral
  /\ redPlayersInTrigger[Authority][X] = {}
  /\ Len(cpQueue[Replica]) = 3
  /\ cpQueue[Replica][1].newState = RedControlled
  /\ cpQueue[Replica][2].newState = Neutral
  /\ cpQueue[Replica][3].newState = Neutral

\* C23: in the ControlPoint class without a network, when an occupant
\* leaves the trigger and both occupant sets are empty afterwards, the state
\* becomes Neutral and the color gray.
C23_LocalLastExitNeutral ==
  [][\A p \in Players :
       (/\ L_onTriggerExit(p)
        /\ p \in localRed \cup localBlue
        /\ localRed' = {} /\ localBlue' = {}) =>
          localState' = Neutral /\ localColor' = Gray]_vars

\* C24: whenever a process handles a ControlPointStateChanged broadcast, the
\* control point instance it is addressed to shows, after the step, the color
\* of its resulting state (Neutral gray, RedControlled red, BlueControlled
\* blue, Contested yellow) and has logged the score line of that state, also
\* when the payload's state is the state the instance already had.
PaintedFor(state) ==
  CASE state = Neutral -> "gray"
    [] state = RedControlled -> "red"
    [] state = BlueControlled -> "blue"
    [] state = Contested -> "yellow"

C24_ApplyAlwaysPresents ==
  [][\A q \in Procs :
       onControlPointStateChanged(q) =>
         LET c == Head(cpQueue[q]).controlPointEntity IN
           /\ color'[q][c] = PaintedFor(currentState'[q][c])
           /\ uiScores'[q][c] = UILine(currentState'[q][c])]_vars

\* player 1 joined and entered X: the authority stored RedControlled itself,
\* then handled its own RedControlled broadcast, which changed no state and
\* painted X red
C24_Witness ==
  /\ events = 2
  /\ Len(cpQueue[Replica]) = 1
  /\ cpQueue[Authority] = << >>
  /\ currentState[Authority][X] = RedControlled
  /\ color[Authority][X] = "red"
  /\ uiScores[Authority][X] = UILine(RedControlled)
  /\ color[Replica][X] = "gray"

\* C25: a player-leave event changes no occupant set and no state of any
\* control point, and a player goes out of an occupant set of the authority
\* only in a trigger-exit step for that player, so a player who leaves the
\* session while inside stays in the set.
C25_LeaveKeepsOccupancy ==
  [][/\ \A p \in Players :
          PlayerDestroy(p) =>
            UNCHANGED <<redPlayersInTrigger, bluePlayersInTrigger, currentState>>
     /\ \A c \in ControlPoints, p \in Players :
          (\/ p \in redPlayersInTrigger[Authority][c] \ redPlayersInTrigger'[Authority][c]
           \/ p \in bluePlayersInTrigger[Authority][c] \ bluePlayersInTrigger'[Authority][c])
             => OwnerExit(c, p)]_vars

\* player 1 entered X and then left the session: it is gone and still an
\* occupant of X
C25_Witness ==
  /\ world[1] = "gone"
  /\ redPlayersInTrigger[Authority][X] = {1}
  /\ currentState[Authority][X] = RedControlled
  /\ events = 3

\* C26: on the authority no player is ever in both occupant sets of a
\* control point, whatever joins, leaves, manual assignments and trigger
\* events happened.
C26_SetsDisjoint ==
  \A c \in ControlPoints :
    redPlayersInTrigger[Authority][c] \cap bluePlayersInTrigger[Authority][c] = {}

\* C27: every ControlPointStateChanged payload the authority sends, from a
\* state change or from the late-join resend, carries the sizes the occupant
\* sets have when it is sent and the transition-table value of those counts
\* (red > 0, blue > 0) as its state, whatever broadcasts the authority has
\* handled before.
StateOfCounts(red, blue) ==
  IF red > 0 /\ blue > 0 THEN Contested
  ELSE IF red > 0 THEN RedControlled
  ELSE IF blue > 0 THEN BlueControlled
  ELSE Neutral

C27_PayloadSelfConsistent ==
  [][\A q \in Procs : \A i \in SentOn(q) :
       LET m == cpQueue'[q][i]
           c == m.controlPointEntity
       IN /\ m.redPlayersCount = Cardinality(redPlayersInTrigger'[Authority][c])
          /\ m.bluePlayersCount = Cardinality(bluePlayersInTrigger'[Authority][c])
          /\ m.newState = StateOfCounts(m.redPlayersCount, m.bluePlayersCount)]_vars

\* C28: when players only join, the number of players the authority's
\* balancing put on Red and the number it put on Blue differ by at most 1,
\* whatever earlier snapshots the authority handled between the joins.
C28_AssignmentsBalanced ==
  Abs(Cardinality(OnTeam(assigned, Red)) - Cardinality(OnTeam(assigned, Blue))) <= 1

\* C29: a join or leave event with no entity, a trigger event with no actor
\* and a trigger event whose actor has no player component leave the
\* rosters, the team counters, the occupant sets and the states unchanged
\* and send no broadcast, on whichever process they are handled.
C29_UnresolvedIgnored ==
  [][\A q \in Procs :
       (\/ UnresolvedJoined(q)
        \/ UnresolvedLeft(q)
        \/ \E c \in ControlPoints, a \in {NoEntity, Prop} :
             UnresolvedEnter(q, c, a) \/ UnresolvedExit(q, c, a)) =>
          UNCHANGED <<playerTeams, redTeamCount, blueTeamCount,
                      redPlayersInTrigger, bluePlayersInTrigger, currentState,
                      teamQueue, cpQueue>>]_vars

\* the authority's state of X is RedControlled with nobody inside: a
\* trigger-exit there that got as far as the recomputation would store and
\* broadcast Neutral, and the events without a player can all occur
C29_Witness ==
  /\ currentState[Authority][X] = RedControlled
  /\ redPlayersInTrigger[Authority][X] = {}
  /\ bluePlayersInTrigger[Authority][X] = {}
  /\ ENABLED UnresolvedExit(Authority, X, Prop)
  /\ ENABLED UnresolvedEnter(Authority, X, NoEntity)
  /\ ENABLED UnresolvedJoined(Authority)
  /\ ENABLED UnresolvedLeft(Authority)

\* C30: assignPlayerToSpecificTeam(player, team) returns true and leaves the
\* player's entry at team; if the player had a team the sum of the two
\* counters is unchanged, and both counters are unchanged when it is the same
\* team; if the player had none the sum grows by one; one TeamAssignment
\* broadcast is sent to every process when TeamManager.instance is set and
\* none when it is not.
C30_ManualAssign ==
  [][\A q \in Procs, p \in Players, team \in {Red, Blue} :
       CallAssign(q, p, team) =>
         LET old == playerTeams[q][p]
             sum == redTeamCount[q] + blueTeamCount[q]
             sumAfter == redTeamCount'[q] + blueTeamCount'[q]
         IN /\ returnedOk' = TRUE
            /\ playerTeams'[q][p] = team
            /\ \A o \in Players \ {p} : playerTeams'[q][o] = playerTeams[q][o]
            /\ old # None => sumAfter = sum
            /\ old = team => UNCHANGED <<redTeamCount, blueTeamCount>>
            /\ old = None => sumAfter = sum + 1
            /\ instance[q] =>
                 \A o \in Procs :
                   /\ IsAppend(teamQueue[o], teamQueue'[o])
                   /\ LastSent(o) = TeamAssignmentPayload(playerTeams'[q],
                                       redTeamCount'[q], blueTeamCount'[q])
            /\ ~instance[q] => teamQueue' = teamQueue]_vars

\* player 1 joined as Red and was moved to Blue on the authority, whose
\* TeamManager has started (counters 0/1, a second snapshot sent); the other
\* process, whose TeamManager has not started, assigned player 1 to Red and
\* sent nothing
C30_Witness ==
  /\ events = 3
  /\ instance[Authority] /\ ~instance[Replica]
  /\ playerTeams[Authority][1] = Blue
  /\ redTeamCount[Authority] = 0 /\ blueTeamCount[Authority] = 1
  /\ playerTeams[Replica][1] = Red
  /\ redTeamCount[Replica] = 1
  /\ Len(teamQueue[Replica]) = 2
  /\ returnedOk

\* the events for player p handled so far, in handling order
HandledFor(p) ==
  SelectSeq(deltaHandled, LAMBDA i : deltaSent[i].playerEntity = p)

\* C31: in the registry of the first ControlPoint class, a player's
\* assignment event handled before that player's removal event leaves the
\* player absent; the same two events handled in the reverse order leave the
\* player present with the assigned team, although the sender has removed
\* the player.
C31_DeltaOrderMatters ==
  \A p \in Players :
    LET h == HandledFor(p)
        n == Len(h)
    IN n >= 2 =>
         LET a == h[n - 1]
             b == h[n]
         IN /\ (/\ deltaSent[a].kind = "assigned"
                 /\ deltaSent[b].kind = "removed"
                 /\ a < b) =>
                  localPlayerTeams[p] = None
            /\ (/\ deltaSent[a].kind = "removed"
                 /\ deltaSent[b].kind = "assigned"
                 /\ b < a) =>
                  /\ localPlayerTeams[p] = deltaSent[b].team
                  /\ a = LastFor(p) =>
                       /\ SenderTeam(p) = None
                       /\ localPlayerTeams[p] # SenderTeam(p)

\* the sender assigned a player and then removed them; the removal was
\* handled first and the assignment second, nothing is in flight, and the
\* registry still has the player
C31_Witness ==
  \E p \in Players :
    /\ Len(HandledFor(p)) = 2
    /\ HandledFor(p)[1] = LastFor(p)
    /\ HandledFor(p)[2] < HandledFor(p)[1]
    /\ deltaSent[HandledFor(p)[1]].kind = "removed"
    /\ deltaSent[HandledFor(p)[2]].kind = "assigned"
    /\ DeltaInFlight = {}
    /\ SenderTeam(p) = None
    /\ localPlayerTeams[p] # None

\* TeamManager.playerTeams at the moment onTeamAssignmentUpdate, handling
\* payload, calls getEntityById(id): after clear() and the iterations before
\* this one
MapAtLookup(payload, id) ==
  IF id \in payload.redTeamPlayers
    THEN RebuildTeam(EmptyMap, {i \in payload.redTeamPlayers : i < id}, Red)
    ELSE RebuildTeam(RebuildTeam(EmptyMap, payload.redTeamPlayers, Red),
                     {i \in payload.blueTeamPlayers : i < id}, Blue)

\* C32: when the authority handles a TeamAssignment payload, which
\* broadcastCompleteTeamAssignment built from the authority's own roster,
\* every getEntityById call for an id the payload lists returns the player
\* entity with that debugId, and that player has the payload's team in
\* playerTeams afterwards.
C32_LookupFindsPlayer ==
  [][onTeamAssignmentUpdate(Authority) =>
       LET payload == Head(teamQueue[Authority]) IN
         \A id \in payload.redTeamPlayers \cup payload.blueTeamPlayers :
           LET playerEntity == getEntityById(MapAtLookup(payload, id), id) IN
             /\ playerEntity \in Players
             /\ DebugId(playerEntity) = id
             /\ playerTeams'[Authority][playerEntity] =
                  IF id \in payload.redTeamPlayers THEN Red ELSE Blue]_vars

====
